---- MODULE Spec2Model ----
(***************************************************************************)
(* Model of src/app.py: the practice tracker's chapter record, its         *)
(* scheduling / status rules and the handlers of main() that drive them.   *)
(*                                                                         *)
(* Conventions.                                                            *)
(*  - A calendar date is a day number; date.today() is the variable today. *)
(*    An ISO date string of a valid date is represented by its day number  *)
(*    (isoformat and strptime are inverse on valid dates), a string that   *)
(*    strptime rejects by BadDate, and Python's None by None.              *)
(*  - An accuracy is held in hundredths of a percent (80.0 is 8000); the   *)
(*    code rounds it to two decimals, so this loses nothing.               *)
(*  - A session record keeps date, questions_attempted, correct, accuracy; *)
(*    the free-text notes are left out.                                    *)
(***************************************************************************)
EXTENDS Integers, Sequences, FiniteSets, TLC

VARIABLES
  chapter,   \* the chapter the Log Practice tab works on
  prev,      \* that chapter as the last handler found it
  today,     \* date.today()
  spacing,   \* a call of spacing_days: its argument and its result
  unlock,    \* a chapter shown on the dashboard and practice_unlocks of it
  norm,      \* a stored chapter dict under ensure_chapter_fields
  store,     \* the data file in the remote repository
  sess,      \* the browser sessions: script position, data, github_sha
  page       \* the form last submitted: its handler, its inputs, its message

vars == <<chapter, prev, today, spacing, unlock, norm, store, sess, page>>


(***************************************************************************)
(* Bounds of the model.                                                    *)
(***************************************************************************)
MaxSessions == 5

MaxDay == 1

MaxCoreSessions == 3

MaxLectureDay == 2

MaxDates == 2

MaxUnlockDay == 6

MaxVaried == 2

MaxLectures == 2

MaxWatched == 4

MaxEditSessions == 4

MaxEditSaves == 2

MaxChapters == 2

MaxDocSessions == 1

MaxDocLectures == 1

(***************************************************************************)
(* Values.                                                                 *)
(***************************************************************************)
None == -1

BadDate == -2

(* Sheet sizes entered in the "Add Chapter" form (min_value=1).            *)
SheetSizes == {45, 64}

(* (questions attempted, correct answers) typed into the Log Practice tab; *)
(* the number inputs allow 1..50 and 0..50.                                *)
(* Accuracies of the accepted ones: 53.33, 64.0, 65.0, 80.0, 86.67.        *)
LogInputs ==
  { <<15, 8>>, <<25, 16>>, <<20, 13>>, <<15, 12>>, <<15, 13>>,
    <<14, 10>>, <<26, 20>>, <<15, 16>> }

(* Arguments of a direct run of lines 503-515, as a test of the scheduler  *)
(* makes it: questions added to the total, and the session's accuracy.     *)
CoreSheetSizes == {50}

CoreQuestions == {10, 15}

CoreAccuracies == {6400, 8200, 8500, 9000}

(***************************************************************************)
(* ensure_chapter: the dict of a newly created chapter.                    *)
(***************************************************************************)
NewChapter ==
  [ chapter_name |-> "Algebra",
    subject |-> "Maths",
    total_lectures_watched |-> 0,
    lecture_dates |-> << >>,
    first_lecture_date |-> None,
    status |-> "learning",
    maintenance_stage |-> 0,
    next_practice_date |-> None,
    practice_sessions |-> << >>,
    current_sheet_index |-> 0,
    sheet_total |-> 0,
    questions_completed_total |-> 0 ]

(***************************************************************************)
(* Scheduler / status engine.                                              *)
(***************************************************************************)
(* Variant: the upper band entered at 80 itself.                           *)
spacing_days_ge80(accuracy) ==
  IF accuracy >= 8000 THEN 9
  ELSE IF accuracy >= 6000 THEN 4
  ELSE 2

spacing_days(accuracy) ==
  IF accuracy > 8000 THEN 9
  ELSE IF accuracy >= 6000 THEN 4
  ELSE 2

(* min(completed / sheet_total, 1.0) as the fraction <<num, den>>.         *)
sheet_progress(ch) ==
  IF ch.sheet_total <= 0 THEN <<0, 1>>
  ELSE IF ch.questions_completed_total >= ch.sheet_total THEN <<1, 1>>
  ELSE <<ch.questions_completed_total, ch.sheet_total>>

(* progress >= 0.7: the float comparison agrees with the exact one for     *)
(* every quotient of two integers below 2^53.                              *)
ProgressAtLeast70(p) == 10 * p[1] >= 7 * p[2]

sheet_completed(ch) ==
  ch.sheet_total > 0 /\ ch.questions_completed_total >= ch.sheet_total

(* Variant: the regression test made at 60 instead of 65.                  *)
update_status_after_session_regress60(ch, accuracy) ==
  IF ch.status = "maintenance" /\ accuracy < 6000
  THEN [ch EXCEPT !.status = "active", !.maintenance_stage = 0]
  ELSE IF /\ Len(ch.practice_sessions) >= 3
          /\ accuracy >= 8000
          /\ ProgressAtLeast70(sheet_progress(ch))
  THEN [ch EXCEPT !.status = "maintenance", !.maintenance_stage = 0]
  ELSE IF ch.status = "learning"
  THEN [ch EXCEPT !.status = "active"]
  ELSE ch

(* Variant: a regressing chapter sent back to learning.                    *)
update_status_after_session_demote(ch, accuracy) ==
  IF ch.status = "maintenance" /\ accuracy < 6500
  THEN [ch EXCEPT !.status = "learning", !.maintenance_stage = 0]
  ELSE IF /\ Len(ch.practice_sessions) >= 3
          /\ accuracy >= 8000
          /\ ProgressAtLeast70(sheet_progress(ch))
  THEN [ch EXCEPT !.status = "maintenance", !.maintenance_stage = 0]
  ELSE IF ch.status = "learning"
  THEN [ch EXCEPT !.status = "active"]
  ELSE ch

(* Variant: regression that leaves maintenance_stage as it is.             *)
update_status_after_session_keep_stage(ch, accuracy) ==
  IF ch.status = "maintenance" /\ accuracy < 6500
  THEN [ch EXCEPT !.status = "active"]
  ELSE IF /\ Len(ch.practice_sessions) >= 3
          /\ accuracy >= 8000
          /\ ProgressAtLeast70(sheet_progress(ch))
  THEN [ch EXCEPT !.status = "maintenance", !.maintenance_stage = 0]
  ELSE IF ch.status = "learning"
  THEN [ch EXCEPT !.status = "active"]
  ELSE ch

(* Variant: promotion from the second session on.                          *)
update_status_after_session_2(ch, accuracy) ==
  IF ch.status = "maintenance" /\ accuracy < 6500
  THEN [ch EXCEPT !.status = "active", !.maintenance_stage = 0]
  ELSE IF /\ Len(ch.practice_sessions) >= 2
          /\ accuracy >= 8000
          /\ ProgressAtLeast70(sheet_progress(ch))
  THEN [ch EXCEPT !.status = "maintenance", !.maintenance_stage = 0]
  ELSE IF ch.status = "learning"
  THEN [ch EXCEPT !.status = "active"]
  ELSE ch

update_status_after_session(ch, accuracy) ==
  IF ch.status = "maintenance" /\ accuracy < 6500
  THEN [ch EXCEPT !.status = "active", !.maintenance_stage = 0]
  ELSE IF /\ Len(ch.practice_sessions) >= 3
          /\ accuracy >= 8000
          /\ ProgressAtLeast70(sheet_progress(ch))
  THEN [ch EXCEPT !.status = "maintenance", !.maintenance_stage = 0]
  ELSE IF ch.status = "learning"
  THEN [ch EXCEPT !.status = "active"]
  ELSE ch

(* Variant: the maintenance back-off without the sheet-completed test.     *)
set_next_practice_date_ungated(ch, accuracy, day) ==
  IF ch.status = "maintenance"
  THEN IF ch.maintenance_stage = 0
       THEN [ch EXCEPT !.next_practice_date = day + 15, !.maintenance_stage = 1]
       ELSE IF ch.maintenance_stage = 1
       THEN [ch EXCEPT !.next_practice_date = day + 30, !.maintenance_stage = 2]
       ELSE [ch EXCEPT !.next_practice_date = None]
  ELSE [ch EXCEPT !.next_practice_date = day + spacing_days(accuracy)]

set_next_practice_date(ch, accuracy, day) ==
  IF ch.status = "maintenance" /\ sheet_completed(ch)
  THEN IF ch.maintenance_stage = 0
       THEN [ch EXCEPT !.next_practice_date = day + 15, !.maintenance_stage = 1]
       ELSE IF ch.maintenance_stage = 1
       THEN [ch EXCEPT !.next_practice_date = day + 30, !.maintenance_stage = 2]
       ELSE [ch EXCEPT !.next_practice_date = None]
  ELSE [ch EXCEPT !.next_practice_date = day + spacing_days(accuracy)]

(* round((correct / questions) * 100, 2) in hundredths: no quotient with   *)
(* questions in 15..25 lies on a rounding tie.                             *)
Accuracy(correct, questions) == (20000 * correct + questions) \div (2 * questions)

(* main, "Log session", lines 503-515: append, count, update, schedule.    *)
LogCore(ch, questions, correct, accuracy, day) ==
  LET session == [ date |-> day, questions_attempted |-> questions,
                   correct |-> correct, accuracy |-> accuracy ]
      appended == [ch EXCEPT
                     !.practice_sessions = Append(@, session),
                     !.questions_completed_total = @ + questions,
                     !.current_sheet_index = @ + 1]
  IN set_next_practice_date(update_status_after_session(appended, accuracy),
                            accuracy, day)

(***************************************************************************)
(* Practice unlock eligibility.                                            *)
(***************************************************************************)
parse_date(value) ==
  IF value = None \/ value = BadDate THEN None ELSE value

RECURSIVE ParseAll(_)
ParseAll(values) ==
  IF values = << >> THEN << >>
  ELSE LET d == parse_date(Head(values))
       IN IF d = None THEN ParseAll(Tail(values))
          ELSE <<d>> \o ParseAll(Tail(values))

RECURSIVE InsertSorted(_, _)
InsertSorted(d, sorted) ==
  IF sorted = << >> THEN <<d>>
  ELSE IF d <= Head(sorted) THEN <<d>> \o sorted
  ELSE <<Head(sorted)>> \o InsertSorted(d, Tail(sorted))

RECURSIVE Sorted(_)
Sorted(dates) ==
  IF dates = << >> THEN << >>
  ELSE InsertSorted(Head(dates), Sorted(Tail(dates)))

(* Variant: the adjacent pairs of the list as stored, not sorted.          *)
has_consecutive_lecture_days_unsorted(ch) ==
  LET dates == ParseAll(ch.lecture_dates)
  IN IF Len(dates) < 2 THEN FALSE
     ELSE \E i \in 2..Len(dates) : dates[i] - dates[i - 1] = 1

has_consecutive_lecture_days(ch) ==
  LET dates == Sorted(ParseAll(ch.lecture_dates))
  IN IF Len(dates) < 2 THEN FALSE
     ELSE \E i \in 2..Len(dates) : dates[i] - dates[i - 1] = 1

practice_unlocks(ch, day) ==
  IF ch.practice_sessions # << >> THEN TRUE
  ELSE IF has_consecutive_lecture_days(ch) THEN TRUE
  ELSE IF ch.total_lectures_watched >= 3 THEN TRUE
  ELSE LET first_date == parse_date(ch.first_lecture_date)
       IN first_date # None /\ day - first_date >= 5

(***************************************************************************)
(* Chapter record normalisation.  A stored chapter is a JSON object: here  *)
(* a function from the twelve keys to the JSON text of the value, Absent   *)
(* for a key the object does not have, Null for null.                      *)
(***************************************************************************)
Absent == "<absent>"

Null == "null"

defaults ==
  [ chapter_name |-> "''",
    total_lectures_watched |-> "0",
    practice_sessions |-> "[]",
    status |-> "'learning'",
    next_practice_date |-> Null,
    current_sheet_index |-> "0",
    lecture_dates |-> "[]",
    first_lecture_date |-> Null,
    maintenance_stage |-> "0",
    subject |-> "'Maths'",
    sheet_total |-> "0",
    questions_completed_total |-> "0" ]

Keys == DOMAIN defaults

(* Python truth of a present value: "not value" holds of these.            *)
Falsy(v) == v \in {Null, "''", "0", "[]", "{}", "false"}

(* isinstance(value, list)                                                 *)
IsList(v) == v \in {"[]", "[session]", "['2026-01-01']"}

(* Variant: the None test inverted ("is not None").                        *)
ensure_chapter_fields_is_not_none(c) ==
  LET filled == [k \in Keys |->
                   IF c[k] = Absent \/ c[k] # Null THEN defaults[k] ELSE c[k]]
      subject == [filled EXCEPT
                    !["subject"] = IF Falsy(@) THEN "'Maths'" ELSE @]
      sessions == [subject EXCEPT
                     !["practice_sessions"] = IF IsList(@) THEN @ ELSE "[]"]
  IN [ chapter |-> sessions,
       changed |-> \/ \E k \in Keys : c[k] = Absent \/ c[k] # Null
                   \/ Falsy(filled["subject"])
                   \/ ~IsList(subject["practice_sessions"]) ]

(* The chapter as the call leaves it, and the flag it returns.             *)
ensure_chapter_fields(c) ==
  LET filled == [k \in Keys |->
                   IF c[k] = Absent \/ c[k] = Null THEN defaults[k] ELSE c[k]]
      subject == [filled EXCEPT
                    !["subject"] = IF Falsy(@) THEN "'Maths'" ELSE @]
      sessions == [subject EXCEPT
                     !["practice_sessions"] = IF IsList(@) THEN @ ELSE "[]"]
  IN [ chapter |-> sessions,
       changed |-> \/ \E k \in Keys : c[k] = Absent \/ c[k] = Null
                   \/ Falsy(filled["subject"])
                   \/ ~IsList(subject["practice_sessions"]) ]

(* Values a stored document may hold under each key.                       *)
StoredValues ==
  [ chapter_name |-> {"''", "'Algebra'"},
    total_lectures_watched |-> {"0", "3"},
    practice_sessions |-> {"[]", "[session]", "{}", "'none'"},
    status |-> {"'learning'", "'maintenance'"},
    next_practice_date |-> {"'2026-01-10'"},
    current_sheet_index |-> {"0", "2"},
    lecture_dates |-> {"[]", "['2026-01-01']"},
    first_lecture_date |-> {"'2026-01-01'"},
    maintenance_stage |-> {"0", "2"},
    subject |-> {"'Maths'", "'Reasoning'", "''"},
    sheet_total |-> {"0", "50"},
    questions_completed_total |-> {"0", "20"} ]

(* A chapter with every key present and a value other than the default.    *)
FullChapter ==
  [ chapter_name |-> "'Algebra'",
    total_lectures_watched |-> "3",
    practice_sessions |-> "[session]",
    status |-> "'maintenance'",
    next_practice_date |-> "'2026-01-10'",
    current_sheet_index |-> "2",
    lecture_dates |-> "['2026-01-01']",
    first_lecture_date |-> "'2026-01-01'",
    maintenance_stage |-> "2",
    subject |-> "'Reasoning'",
    sheet_total |-> "50",
    questions_completed_total |-> "20" ]

(* The chapters that differ from FullChapter in at most n keys, each of    *)
(* them missing, null or holding another stored value.                     *)
KeyValues ==
  UNION { { <<k, v>> : v \in StoredValues[k] \cup {Absent, Null} } : k \in Keys }

RECURSIVE PartialChapters(_)
PartialChapters(n) ==
  IF n = 0 THEN { FullChapter }
  ELSE LET fewer == PartialChapters(n - 1)
       IN fewer \cup { [c EXCEPT ![kv[1]] = kv[2]] : c \in fewer, kv \in KeyValues }

(***************************************************************************)
(* Remote storage.  The data file has a revision (sha); revision 0 stands  *)
(* for "no such file".  The document is reduced to what the handlers below *)
(* read and write: whether its chapters are normalised, and the lecture    *)
(* count of its chapter.                                                   *)
(***************************************************************************)
Sessions == {1, 2}

NoFile == 0

empty_data == [normalized |-> TRUE, lectures |-> 0]

(* Variant: the revision sent is one fetched anew just before the write.   *)
PayloadSha_refetched(s) == store.sha

(* save_data: the payload carries github_sha unless the file is created.   *)
PayloadSha(s) ==
  IF sess[s].creating THEN NoFile ELSE sess[s].github_sha

(* The storage collaborator's conditional write: accepted only on the      *)
(* file's current revision (a create only while there is no file).         *)
PutAccepted(sha) == sha = store.sha

(***************************************************************************)
(* Inputs of the function-level specifications.                            *)
(***************************************************************************)
Accuracies == 0..10000

LectureDays == 0..MaxLectureDay

RECURSIVE ListsUpTo(_, _)
ListsUpTo(S, n) ==
  IF n = 0 THEN { << >> }
  ELSE LET shorter == ListsUpTo(S, n - 1)
       IN shorter \cup { Append(l, x) : l \in shorter, x \in S }

(* lecture_dates as found in the stored document: in any order, possibly   *)
(* with an entry that is no ISO date.                                      *)
LectureDateLists == ListsUpTo(LectureDays \cup {BadDate}, MaxDates)

LectureCounts == {0, 1, 2, 3, 4}

SessionLists ==
  { << >>, << [date |-> 0, questions_attempted |-> 15, correct |-> 12,
               accuracy |-> 8000] >> }

(***************************************************************************)
(* The parts of the state a specification does not use stay as they are.   *)
(***************************************************************************)
SchedIdle == chapter = NewChapter /\ prev = NewChapter /\ today = 0

SpacingIdle == spacing = [accuracy |-> 0, days |-> 0]

UnlockIdle ==
  unlock = [ chapter |-> [ practice_sessions |-> << >>, lecture_dates |-> << >>,
                           total_lectures_watched |-> 0,
                           first_lecture_date |-> None ],
             result |-> "none" ]

NormIdle ==
  norm = [ input |-> FullChapter, once |-> FullChapter, chapter |-> FullChapter,
           calls |-> 0, changed |-> FALSE ]

SessionIdle ==
  [ pc |-> "idle", data |-> empty_data, github_sha |-> NoFile,
    creating |-> FALSE, after |-> "idle", outcome |-> "none" ]

(* Nothing submitted, no message on the page.                              *)
PageIdle == page = [handler |-> "none", input |-> << >>, message |-> "none"]

StoreIdle ==
  /\ store = [sha |-> NoFile, doc |-> empty_data]
  /\ sess = [s \in Sessions |-> SessionIdle]

(***************************************************************************)
(* Handlers of main().                                                     *)
(***************************************************************************)
InitSched ==
  /\ \E s \in SheetSizes \cup {0} : chapter = [NewChapter EXCEPT !.sheet_total = s]
  /\ prev = chapter
  /\ today = 0

(* "Log session": rejected inputs stop the script run before any change;  *)
(* an accepted session ends with save_data, here by the only session, on   *)
(* the revision it has just loaded.                                        *)
LogSession ==
  \E in \in LogInputs :
    LET questions == in[1]
        correct == in[2]
    IN /\ Len(chapter.practice_sessions) < MaxSessions
       /\ IF questions < 15 \/ questions > 25 \/ correct > questions
          THEN UNCHANGED <<chapter, prev, store>>
          ELSE /\ chapter' = LogCore(chapter, questions, correct,
                                     Accuracy(correct, questions), today)
               /\ prev' = chapter
               /\ store' = [sha |-> store.sha + 1, doc |-> chapter']
       /\ UNCHANGED today

(* Lines 503-515 run on arguments of the caller's choosing.                *)
CoreLog ==
  \E questions \in CoreQuestions, accuracy \in CoreAccuracies :
    /\ Len(chapter.practice_sessions) < MaxCoreSessions
    /\ chapter' = LogCore(chapter, questions, 0, accuracy, today)
    /\ prev' = chapter
    /\ UNCHANGED today

(* The calendar moves on between script runs.                              *)
Tick ==
  /\ today < MaxDay
  /\ today' = today + 1
  /\ UNCHANGED <<chapter, prev>>

Init ==
  /\ InitSched
  /\ store = [sha |-> 1, doc |-> chapter]
  /\ sess = [s \in Sessions |-> SessionIdle]
  /\ SpacingIdle /\ UnlockIdle /\ NormIdle /\ PageIdle

Next ==
  \/ LogSession /\ UNCHANGED <<spacing, unlock, norm, sess, page>>
  \/ Tick /\ UNCHANGED <<spacing, unlock, norm, store, sess, page>>

Spec == Init /\ [][Next]_vars

InitCore ==
  /\ \E s \in CoreSheetSizes : chapter = [NewChapter EXCEPT !.sheet_total = s]
  /\ prev = chapter
  /\ today = 0
  /\ SpacingIdle /\ UnlockIdle /\ NormIdle /\ StoreIdle /\ PageIdle

NextCore ==
  \/ CoreLog /\ UNCHANGED <<spacing, unlock, norm, store, sess, page>>
  \/ Tick /\ UNCHANGED <<spacing, unlock, norm, store, sess, page>>

SpecCore == InitCore /\ [][NextCore]_vars

(***************************************************************************)
(* spacing_days on every accuracy the code can produce: round(.., 2) of a  *)
(* percentage, 0.00 .. 100.00.                                             *)
(***************************************************************************)
InitSpacing ==
  /\ \E a \in Accuracies : spacing = [accuracy |-> a, days |-> 0]
  /\ SchedIdle /\ UnlockIdle /\ NormIdle /\ StoreIdle /\ PageIdle

CallSpacing ==
  /\ spacing.days = 0
  /\ spacing' = [spacing EXCEPT !.days = spacing_days(spacing.accuracy)]

NextSpacing ==
  /\ CallSpacing
  /\ UNCHANGED <<chapter, prev, today, unlock, norm, store, sess, page>>

SpecSpacing == InitSpacing /\ [][NextSpacing]_vars

(***************************************************************************)
(* practice_unlocks on a chapter of the loaded document, as the dashboard  *)
(* calls it on each script run.                                            *)
(***************************************************************************)
InitUnlock ==
  /\ \E ld \in LectureDateLists, n \in LectureCounts,
        f \in LectureDays \cup {None, BadDate}, ps \in SessionLists :
        unlock = [ chapter |-> [ practice_sessions |-> ps,
                                 lecture_dates |-> ld,
                                 total_lectures_watched |-> n,
                                 first_lecture_date |-> f ],
                   result |-> "none" ]
  /\ SchedIdle /\ SpacingIdle /\ NormIdle /\ StoreIdle /\ PageIdle

(* render_dashboard: the chapter has no next_practice_date.                *)
RenderDashboard ==
  /\ unlock.result = "none"
  /\ unlock' = [unlock EXCEPT
                  !.result = IF practice_unlocks(unlock.chapter, today)
                             THEN "unlocked" ELSE "locked"]
  /\ UNCHANGED today

(* A later day: the next script run computes everything anew.              *)
UnlockTick ==
  /\ today < MaxUnlockDay
  /\ today' = today + 1
  /\ unlock' = [unlock EXCEPT !.result = "none"]

NextUnlock ==
  \/ RenderDashboard /\ UNCHANGED <<chapter, prev, spacing, norm, store, sess, page>>
  \/ UnlockTick /\ UNCHANGED <<chapter, prev, spacing, norm, store, sess, page>>

SpecUnlock == InitUnlock /\ [][NextUnlock]_vars

(***************************************************************************)
(* record_lecture, called by "Update lectures" on the chapter that         *)
(* ensure_chapter returned.                                                *)
(***************************************************************************)
HasDate(ld, day) == \E i \in 1..Len(ld) : ld[i] = day

(* Variant: first_lecture_date assigned on every counted call.             *)
record_lecture_last(ch, lectures, day) ==
  IF lectures <= 0 THEN ch
  ELSE [ch EXCEPT
          !.total_lectures_watched = @ + lectures,
          !.lecture_dates = IF HasDate(@, day) THEN @ ELSE Append(@, day),
          !.first_lecture_date = day]

record_lecture(ch, lectures, day) ==
  IF lectures <= 0 THEN ch
  ELSE [ch EXCEPT
          !.total_lectures_watched = @ + lectures,
          !.lecture_dates = IF HasDate(@, day) THEN @ ELSE Append(@, day),
          !.first_lecture_date = IF @ = None THEN day ELSE @]

(* The counts a caller may pass; the number input of the tab gives >= 0.   *)
RecordCounts == {-1, 0, 1, 2}

(* A chapter as ensure_chapter makes it, or as the add form leaves it with *)
(* a lecture count typed in.                                               *)
InitLecture ==
  /\ \E n \in {0, 2} :
        unlock = [ chapter |-> [ practice_sessions |-> << >>,
                                 lecture_dates |-> << >>,
                                 total_lectures_watched |-> n,
                                 first_lecture_date |-> None ],
                   result |-> "none" ]
  /\ SchedIdle /\ SpacingIdle /\ NormIdle /\ StoreIdle /\ PageIdle

RecordLecture ==
  \E n \in RecordCounts :
    /\ unlock.chapter.total_lectures_watched + n <= MaxWatched
    /\ unlock' = [unlock EXCEPT !.chapter = record_lecture(@, n, today)]
    /\ UNCHANGED today

NextLecture ==
  \/ RecordLecture /\ UNCHANGED <<chapter, prev, spacing, norm, store, sess, page>>
  \/ UnlockTick /\ UNCHANGED <<chapter, prev, spacing, norm, store, sess, page>>

SpecLecture == InitLecture /\ [][NextLecture]_vars

(***************************************************************************)
(* ensure_chapter_fields on a chapter of the loaded document: main runs it *)
(* on every load, so a chapter is normalised again on the next script run. *)
(***************************************************************************)
InitNorm ==
  /\ \E c \in PartialChapters(MaxVaried) :
        norm = [ input |-> c, once |-> c, chapter |-> c,
                 calls |-> 0, changed |-> FALSE ]
  /\ SchedIdle /\ SpacingIdle /\ UnlockIdle /\ StoreIdle /\ PageIdle

Normalize ==
  /\ norm.calls < 2
  /\ LET r == ensure_chapter_fields(norm.chapter)
     IN norm' = [norm EXCEPT
                   !.chapter = r.chapter,
                   !.once = IF norm.calls = 0 THEN r.chapter ELSE @,
                   !.calls = @ + 1,
                   !.changed = r.changed]

NextNorm ==
  /\ Normalize
  /\ UNCHANGED <<chapter, prev, today, spacing, unlock, store, sess, page>>

SpecNorm == InitNorm /\ [][NextNorm]_vars

(***************************************************************************)
(* Two browser sessions on the same data file.  A script run loads the     *)
(* file, normalises it (saving if that changed it), and either ends or     *)
(* runs "Update lectures", which saves and reruns.  Each HTTP request is a *)
(* step of its own; the other session may act between any two.             *)
(***************************************************************************)
InitStore ==
  /\ \/ store = [sha |-> NoFile, doc |-> empty_data]
     \/ \E n \in BOOLEAN : store = [sha |-> 1, doc |-> [normalized |-> n, lectures |-> 0]]
  /\ sess = [s \in Sessions |-> SessionIdle]
  /\ SchedIdle /\ SpacingIdle /\ UnlockIdle /\ NormIdle /\ PageIdle

(* load_data, GET 200, then main's normalisation loop up to its save_data. *)
Load(s) ==
  /\ sess[s].pc = "idle"
  /\ store.sha # NoFile
  /\ sess' = [sess EXCEPT ![s] =
       [ pc |-> IF store.doc.normalized THEN "loaded" ELSE "saving",
         data |-> [store.doc EXCEPT !.normalized = TRUE],
         github_sha |-> store.sha,
         creating |-> FALSE,
         after |-> "loaded",
         outcome |-> "none" ]]
  /\ UNCHANGED store

(* load_data, GET 404: empty_data and save_data(data, creating=True).      *)
LoadMissing(s) ==
  /\ sess[s].pc = "idle"
  /\ store.sha = NoFile
  /\ sess' = [sess EXCEPT ![s] =
       [ pc |-> "saving",
         data |-> empty_data,
         github_sha |-> sess[s].github_sha,
         creating |-> TRUE,
         after |-> "loaded",
         outcome |-> "none" ]]
  /\ UNCHANGED store

(* save_data, the PUT and its response: 200/201 stores the new sha, any    *)
(* other status is shown with st.error and the script run stops.           *)
Put(s) ==
  /\ sess[s].pc = "saving"
  /\ IF PutAccepted(PayloadSha(s))
     THEN /\ store' = [sha |-> store.sha + 1, doc |-> sess[s].data]
          /\ sess' = [sess EXCEPT ![s].pc = sess[s].after,
                                  ![s].github_sha = store.sha + 1,
                                  ![s].creating = FALSE,
                                  ![s].outcome = "saved"]
     ELSE /\ UNCHANGED store
          /\ sess' = [sess EXCEPT ![s].pc = "idle",
                                  ![s].creating = FALSE,
                                  ![s].outcome = "error"]

(* "Update lectures": record_lecture on the loaded data, then save_data.   *)
UpdateLectures(s) ==
  /\ sess[s].pc = "loaded"
  /\ sess[s].data.lectures < MaxLectures
  /\ sess' = [sess EXCEPT ![s].data.lectures = @ + 1,
                          ![s].pc = "saving",
                          ![s].after = "idle"]
  /\ UNCHANGED store

(* The script run ends with no button pressed.                             *)
EndRun(s) ==
  /\ sess[s].pc = "loaded"
  /\ sess' = [sess EXCEPT ![s].pc = "idle"]
  /\ UNCHANGED store

StoreFrame == UNCHANGED <<chapter, prev, today, spacing, unlock, norm, page>>

NextStore ==
  \/ \E s \in Sessions : Load(s) /\ StoreFrame
  \/ \E s \in Sessions : LoadMissing(s) /\ StoreFrame
  \/ \E s \in Sessions : Put(s) /\ StoreFrame
  \/ \E s \in Sessions : UpdateLectures(s) /\ StoreFrame
  \/ \E s \in Sessions : EndRun(s) /\ StoreFrame

SpecStore == InitStore /\ [][NextStore]_vars

(***************************************************************************)
(* One chapter under the three forms that change it: "Log session",        *)
(* the edit form of the chapter table and "Update lectures". One browser   *)
(* session, one day; page holds what the form showed.                      *)
(***************************************************************************)
(* Variant: correct > questions tested after the session is scheduled.     *)
LogPracticeRun_late_check(ch, questions, correct, day) ==
  IF questions < 15 \/ questions > 25
  THEN [chapter |-> ch, message |-> "warning", saved |-> FALSE]
  ELSE LET logged == LogCore(ch, questions, correct,
                             Accuracy(correct, questions), day)
       IN IF correct > questions
          THEN [chapter |-> logged, message |-> "error", saved |-> FALSE]
          ELSE [chapter |-> logged, message |-> "success", saved |-> TRUE]

(* main, "Log session": the chapter as the run leaves it, the message it   *)
(* shows and whether it reached save_data.                                 *)
LogPracticeRun(ch, questions, correct, day) ==
  IF questions < 15 \/ questions > 25
  THEN [chapter |-> ch, message |-> "warning", saved |-> FALSE]
  ELSE IF correct > questions
  THEN [chapter |-> ch, message |-> "error", saved |-> FALSE]
  ELSE [ chapter |-> LogCore(ch, questions, correct,
                             Accuracy(correct, questions), day),
         message |-> "success", saved |-> TRUE ]

(* The assignments of the edit form (the subject is left out).             *)
edit_form(ch, name, sheet_total, lectures, questions) ==
  [ch EXCEPT !.chapter_name = name,
             !.sheet_total = sheet_total,
             !.total_lectures_watched = lectures,
             !.questions_completed_total = questions]

(* <<questions, correct>>: accuracies 80 and 64, then too few questions    *)
(* and more correct answers than questions.                                *)
EditLogInputs == { <<15, 12>>, <<25, 16>>, <<14, 10>>, <<15, 16>> }

(* <<sheet size, questions solved, lectures watched>> typed into the edit  *)
(* form.                                                                   *)
EditInputs == { <<45, 0, 0>>, <<45, 45, 3>>, <<64, 45, 3>> }

(* Saves made by the edit form and by "Update lectures" so far.            *)
EditSaves == store.sha - 1 - Len(chapter.practice_sessions)

(* The chapter as the add form or "Update lectures" created it.            *)
InitEdit ==
  /\ chapter \in { [NewChapter EXCEPT !.sheet_total = 45] }
                   \cup { record_lecture(NewChapter, n, 0) : n \in {0, 1} }
  /\ prev = chapter
  /\ today = 0
  /\ store = [sha |-> 1, doc |-> chapter]
  /\ sess = [s \in Sessions |-> SessionIdle]
  /\ SpacingIdle /\ UnlockIdle /\ NormIdle /\ PageIdle

LogPractice ==
  \E in \in EditLogInputs :
    LET r == LogPracticeRun(chapter, in[1], in[2], today)
    IN /\ Len(chapter.practice_sessions) < MaxEditSessions
       /\ chapter' = r.chapter
       /\ prev' = chapter
       /\ store' = IF r.saved THEN [sha |-> store.sha + 1, doc |-> r.chapter]
                   ELSE store
       /\ page' = [handler |-> "log", input |-> in, message |-> r.message]

SaveEdit ==
  \E in \in EditInputs :
    /\ EditSaves < MaxEditSaves
    /\ chapter' = edit_form(chapter, chapter.chapter_name, in[1], in[3], in[2])
    /\ prev' = chapter
    /\ store' = [sha |-> store.sha + 1, doc |-> chapter']
    /\ page' = [handler |-> "edit", input |-> in, message |-> "success"]

LecturesOfChapter ==
  \E n \in {0, 1} :
    /\ EditSaves < MaxEditSaves
    /\ chapter' = record_lecture(chapter, n, today)
    /\ prev' = chapter
    /\ store' = [sha |-> store.sha + 1, doc |-> chapter']
    /\ page' = [handler |-> "lectures", input |-> <<n>>, message |-> "success"]

NextEdit ==
  \/ LogPractice /\ UNCHANGED <<today, spacing, unlock, norm, sess>>
  \/ SaveEdit /\ UNCHANGED <<today, spacing, unlock, norm, sess>>
  \/ LecturesOfChapter /\ UNCHANGED <<today, spacing, unlock, norm, sess>>

SpecEdit == InitEdit /\ [][NextEdit]_vars

(***************************************************************************)
(* The document of chapters under the forms that add, create, rename,      *)
(* delete and log. One browser session; every run of the script loads the  *)
(* stored document, normalizes it, saves it if a chapter was reported      *)
(* changed, sorts it and then runs the handler of the button pressed.      *)
(* store.doc is the stored list of chapters; page.saved lists the          *)
(* documents the run handed to save_data, in order. The revision of the    *)
(* file is not followed here: every PUT of the only session is accepted.   *)
(***************************************************************************)
(* What can be typed into a name field.                                    *)
TypedNames == {"Algebra", "algebra", "Geometry ", ""}

(* The names chosen or typed in the "Add / Update Lecture" tab.            *)
LectureNames == {"Algebra", "algebra", "Geometry", ""}

(* str.strip() on these.                                                   *)
strip(name) == IF name = "Geometry " THEN "Geometry" ELSE name

(* str.lower() on these.                                                   *)
lower(name) ==
  IF name = "Algebra" THEN "algebra"
  ELSE IF name = "Geometry" THEN "geometry"
  ELSE IF name = "Geometry " THEN "geometry "
  ELSE name

(* The place of a lower-cased name in the order of Python strings.         *)
StrRank(l) ==
  IF l = "" THEN 0
  ELSE IF l = "algebra" THEN 1
  ELSE IF l = "geometry" THEN 2
  ELSE 3

(* sorted(..., key=lambda c: c["chapter_name"].lower()): stable.           *)
InsertByName(chs, c) ==
  LET k == Cardinality({ i \in 1..Len(chs) :
                           StrRank(lower(chs[i].chapter_name))
                             <= StrRank(lower(c.chapter_name)) })
  IN SubSeq(chs, 1, k) \o <<c>> \o SubSeq(chs, k + 1, Len(chs))

RECURSIVE sort_chapters(_)
sort_chapters(chs) ==
  IF chs = << >> THEN << >>
  ELSE InsertByName(sort_chapters(SubSeq(chs, 1, Len(chs) - 1)), chs[Len(chs)])

(* The index of the first chapter of that very name, 0 for None.           *)
get_chapter(chs, name) ==
  IF \E i \in 1..Len(chs) : chs[i].chapter_name = name
  THEN CHOOSE i \in 1..Len(chs) :
         /\ chs[i].chapter_name = name
         /\ \A j \in 1..(i - 1) : chs[j].chapter_name # name
  ELSE 0

(* The list after ensure_chapter: a new chapter goes to the end.           *)
ensure_chapter(chs, name) ==
  IF get_chapter(chs, name) # 0 THEN chs
  ELSE Append(chs, [NewChapter EXCEPT !.chapter_name = name])

(* ensure_chapter_fields on a chapter that holds every key, a subject and  *)
(* a list of sessions: the flag it returns.                                *)
ReportsChanged(c) ==
  c.next_practice_date = None \/ c.first_lecture_date = None

(* main up to the tabs: the documents handed to save_data, and data.       *)
SavedAtLoad ==
  IF \E i \in 1..Len(store.doc) : ReportsChanged(store.doc[i])
  THEN <<store.doc>> ELSE << >>

LoadedData == sort_chapters(store.doc)

(* A run that ends in a message without a save of its handler.             *)
Refuse(handler, input) ==
  /\ page' = [handler |-> handler, input |-> input, message |-> "error",
              saved |-> SavedAtLoad]
  /\ UNCHANGED store

(* A run whose handler hands data to save_data.                            *)
Save(handler, input, data) ==
  /\ page' = [handler |-> handler, input |-> input, message |-> "success",
              saved |-> Append(SavedAtLoad, data)]
  /\ store' = [store EXCEPT !.doc = data]

(* Lectures and sessions held by a document.                               *)
RECURSIVE LecturesWatched(_)
LecturesWatched(chs) ==
  IF chs = << >> THEN 0
  ELSE Head(chs).total_lectures_watched + LecturesWatched(Tail(chs))

RECURSIVE SessionsLogged(_)
SessionsLogged(chs) ==
  IF chs = << >> THEN 0
  ELSE Len(Head(chs).practice_sessions) + SessionsLogged(Tail(chs))

InitDoc ==
  /\ store = [sha |-> 1, doc |-> << >>]
  /\ page = [handler |-> "none", input |-> << >>, message |-> "none",
             saved |-> << >>]
  /\ sess = [s \in Sessions |-> SessionIdle]
  /\ SchedIdle /\ SpacingIdle /\ UnlockIdle /\ NormIdle

AddChapter ==
  \E new_name \in TypedNames :
    LET data == LoadedData
        name == strip(new_name)
    IN /\ Len(data) < MaxChapters
       /\ IF name = "" \/ get_chapter(data, name) # 0
          THEN Refuse("add", <<new_name>>)
          ELSE LET created == ensure_chapter(data, name)
                   i == get_chapter(created, name)
               IN Save("add", <<new_name>>,
                       sort_chapters([created EXCEPT
                          ![i] = [@ EXCEPT !.sheet_total = 45,
                                           !.questions_completed_total = 0,
                                           !.total_lectures_watched = 0]]))

LecturesInDocument ==
  \E chapter_name \in LectureNames, lectures \in {0, 1} :
    LET data == LoadedData
    IN IF chapter_name = ""
       THEN Refuse("lectures", <<chapter_name, lectures>>)
       ELSE LET created == ensure_chapter(data, chapter_name)
                i == get_chapter(created, chapter_name)
            IN /\ Len(created) <= MaxChapters
               /\ LecturesWatched(data) + lectures <= MaxDocLectures
               /\ Save("lectures", <<chapter_name, lectures>>,
                       [created EXCEPT
                          ![i] = record_lecture(@, lectures, today)])

RenameChapter ==
  \E i \in 1..Len(store.doc), edit_name \in TypedNames :
    LET data == LoadedData
        name == strip(edit_name)
        sheet == IF data[i].sheet_total > 1 THEN data[i].sheet_total ELSE 1
    IN IF name = "" \/ (name # data[i].chapter_name /\ get_chapter(data, name) # 0)
       THEN Refuse("edit", <<data[i].chapter_name, edit_name>>)
       ELSE Save("edit", <<data[i].chapter_name, edit_name>>,
                 sort_chapters([data EXCEPT
                    ![i] = edit_form(@, name, sheet,
                                     @.total_lectures_watched,
                                     @.questions_completed_total)]))

DeleteChapter ==
  \E i \in 1..Len(store.doc) :
    LET data == LoadedData
    IN Save("delete", <<data[i].chapter_name>>,
            SelectSeq(data, LAMBDA c : c.chapter_name # data[i].chapter_name))

LogInDocument ==
  \E k \in 1..Len(store.doc) :
    LET data == LoadedData
        i == get_chapter(data, data[k].chapter_name)
        r == LogPracticeRun(data[i], 15, 12, today)
    IN /\ SessionsLogged(data) < MaxDocSessions
       /\ Save("log", <<data[k].chapter_name>>, [data EXCEPT ![i] = r.chapter])

NextDoc ==
  \/ AddChapter /\ UNCHANGED <<chapter, prev, today, spacing, unlock, norm, sess>>
  \/ LecturesInDocument /\ UNCHANGED <<chapter, prev, today, spacing, unlock, norm, sess>>
  \/ RenameChapter /\ UNCHANGED <<chapter, prev, today, spacing, unlock, norm, sess>>
  \/ DeleteChapter /\ UNCHANGED <<chapter, prev, today, spacing, unlock, norm, sess>>
  \/ LogInDocument /\ UNCHANGED <<chapter, prev, today, spacing, unlock, norm, sess>>

SpecDoc == InitDoc /\ [][NextDoc]_vars

(***************************************************************************)
(* Reading the last handler off the state: prev is the chapter as the last *)
(* handler found it.                                                       *)
(***************************************************************************)
NumSessions(ch) == Len(ch.practice_sessions)

Logged == NumSessions(chapter) = NumSessions(prev) + 1

LastSession == chapter.practice_sessions[NumSessions(chapter)]

Promoted == Logged /\ prev.status # "maintenance" /\ chapter.status = "maintenance"

RECURSIVE QuestionsUpTo(_, _)
QuestionsUpTo(ch, k) ==
  IF k = 0 THEN 0
  ELSE ch.practice_sessions[k].questions_attempted + QuestionsUpTo(ch, k - 1)

(* The session at which the running total of questions first reached the   *)
(* sheet size (no edit form in these specifications, so the total is the   *)
(* sum of the sessions' questions).                                        *)
CompletedAtSession(ch) ==
  CHOOSE k \in 1..NumSessions(ch) :
    /\ QuestionsUpTo(ch, k) >= ch.sheet_total
    /\ QuestionsUpTo(ch, k - 1) < ch.sheet_total

C2_Regression ==
  (Logged /\ prev.status = "maintenance" /\ LastSession.accuracy < 6500) =>
    (chapter.status = "active" /\ chapter.maintenance_stage = 0)

(* A regression from stage 2 by a session of accuracy 64.                  *)
C2_Witness ==
  /\ Logged
  /\ prev.status = "maintenance"
  /\ prev.maintenance_stage = 2
  /\ LastSession.accuracy = 6400
  /\ chapter.status = "active"

(***************************************************************************)
(* C3, as stated: a session with accuracy >= 65 logged on day D on a       *)
(* chapter in maintenance sets the next date to D+15 and the stage to 1    *)
(* from stage 0, to D+30 and stage 2 from stage 1, and to none, stage 2,   *)
(* from stage 2, whatever the accuracy and the sheet progress.             *)
(***************************************************************************)
C3_MaintenanceCycle ==
  (Logged /\ prev.status = "maintenance" /\ LastSession.accuracy >= 6500) =>
    /\ prev.maintenance_stage = 0 =>
          /\ chapter.next_practice_date = LastSession.date + 15
          /\ chapter.maintenance_stage = 1
    /\ prev.maintenance_stage = 1 =>
          /\ chapter.next_practice_date = LastSession.date + 30
          /\ chapter.maintenance_stage = 2
    /\ prev.maintenance_stage = 2 =>
          /\ chapter.next_practice_date = None
          /\ chapter.maintenance_stage = 2

(***************************************************************************)
(* C4, as stated: maintenance_stage never decreases over a session during  *)
(* which the status stays maintenance, and it returns to 0 only by a       *)
(* session that takes the chapter out of maintenance.                      *)
(***************************************************************************)
C4_StageOnlyAdvances ==
  /\ (Logged /\ prev.status = "maintenance" /\ chapter.status = "maintenance")
        => chapter.maintenance_stage >= prev.maintenance_stage
  /\ (Logged /\ prev.maintenance_stage > 0 /\ chapter.maintenance_stage = 0)
        => (prev.status = "maintenance" /\ chapter.status # "maintenance")

(***************************************************************************)
(* C5, as stated: once the sheet is completed, a session promotes the      *)
(* chapter only if at least 2 sessions were logged since the session at    *)
(* which the sheet was first completed.                                    *)
(***************************************************************************)
C5_PostSheetGate ==
  (Promoted /\ sheet_completed(chapter)) =>
    NumSessions(chapter) - CompletedAtSession(chapter) >= 2

(* The end-to-end scenario: sheet_total 50, three sessions of accuracy 85, *)
(* 82 and 90, 40 questions completed at the third.                         *)
C6_Scenario ==
  /\ chapter.sheet_total = 50
  /\ NumSessions(chapter) = 3
  /\ chapter.practice_sessions[1].accuracy = 8500
  /\ chapter.practice_sessions[2].accuracy = 8200
  /\ chapter.practice_sessions[3].accuracy = 9000
  /\ chapter.questions_completed_total = 40

C7_SpacingBands ==
  spacing.days # 0 =>
    /\ spacing.accuracy > 8000 => spacing.days = 9
    /\ (6000 <= spacing.accuracy /\ spacing.accuracy <= 8000) => spacing.days = 4
    /\ spacing.accuracy < 6000 => spacing.days = 2
    /\ spacing.accuracy \in {6000, 6001, 8000} => spacing.days = 4
    /\ spacing.accuracy = 8001 => spacing.days = 9
    /\ spacing.accuracy = 5999 => spacing.days = 2

(* The call on 80.00, the top of the middle band.                          *)
C7_Witness == spacing.accuracy = 8000 /\ spacing.days = 4

IsDate(v) == v # None /\ v # BadDate

(* The four ways to unlock, read off the chapter and today.                *)
C8_UnlockCriterion ==
  \/ Len(unlock.chapter.practice_sessions) >= 1
  \/ \E i, j \in 1..Len(unlock.chapter.lecture_dates) :
        /\ IsDate(unlock.chapter.lecture_dates[i])
        /\ IsDate(unlock.chapter.lecture_dates[j])
        /\ unlock.chapter.lecture_dates[j] = unlock.chapter.lecture_dates[i] + 1
  \/ unlock.chapter.total_lectures_watched >= 3
  \/ /\ IsDate(unlock.chapter.first_lecture_date)
     /\ today - unlock.chapter.first_lecture_date >= 5

(***************************************************************************)
(* C8: practice_unlocks is true exactly when the chapter has a practice    *)
(* session, or two lecture dates one calendar day apart, or at least 3     *)
(* lectures watched, or a first lecture date at least 5 days before today. *)
(***************************************************************************)
C8_UnlockIff ==
  unlock.result # "none" => (unlock.result = "unlocked" <=> C8_UnlockCriterion)

(* A chapter with no session, one lecture on day 0 and nothing else, found *)
(* unlocked on day 5.                                                      *)
C8_Witness ==
  /\ unlock.chapter.practice_sessions = << >>
  /\ unlock.chapter.lecture_dates = <<0>>
  /\ unlock.chapter.total_lectures_watched = 1
  /\ unlock.chapter.first_lecture_date = 0
  /\ today = 5
  /\ unlock.result = "unlocked"

(* The second call leaves the chapter as the first left it.                *)
C9_Idempotent == norm.calls = 2 => norm.chapter = norm.once

(***************************************************************************)
(* C9, as stated: a second ensure_chapter_fields leaves the chapter as the *)
(* first left it, and every field that was present and non-null in the     *)
(* input keeps its value.                                                  *)
(***************************************************************************)
C9_IdempotentKeepsPresent ==
  /\ C9_Idempotent
  /\ norm.calls >= 1 =>
       \A k \in Keys :
         (norm.input[k] # Absent /\ norm.input[k] # Null)
           => norm.chapter[k] = norm.input[k]

(* C9, amended: idempotent, and every present, non-null field keeps its    *)
(* value except a subject that Python takes for false (the empty string),  *)
(* which becomes Maths, and a practice_sessions that is not a list, which  *)
(* becomes the empty list.                                                 *)
C9_IdempotentKeepsWellFormed ==
  /\ C9_Idempotent
  /\ norm.calls >= 1 =>
       \A k \in Keys :
         ( /\ norm.input[k] # Absent
           /\ norm.input[k] # Null
           /\ ~(k = "subject" /\ Falsy(norm.input[k]))
           /\ ~(k = "practice_sessions" /\ ~IsList(norm.input[k])) )
           => norm.chapter[k] = norm.input[k]

(* A chapter with one key missing and another null, normalised twice.      *)
C9_Witness ==
  /\ norm.calls = 2
  /\ norm.input["status"] = Absent
  /\ norm.input["sheet_total"] = Null
  /\ norm.chapter["status"] = "'learning'"
  /\ norm.chapter["sheet_total"] = "0"

(* The revision a session's data was computed from.                        *)
BaseRevision(s) == IF sess[s].creating THEN NoFile ELSE sess[s].github_sha

(* A step in which session s gets the answer to its PUT.                   *)
PutStep(s) == sess[s].pc = "saving" /\ sess'[s].pc # "saving"

(***************************************************************************)
(* C10: a save issued with a sha that is not the file's current revision   *)
(* leaves the file as it is and ends in an error shown to the user; and    *)
(* the file only ever changes by a write of data computed from its current *)
(* revision.                                                               *)
(***************************************************************************)
C10_StaleSaveRejected ==
  [][ /\ \A s \in Sessions :
           (PutStep(s) /\ PayloadSha(s) # store.sha)
             => (store' = store /\ sess'[s].outcome = "error")
      /\ store' # store =>
           \E s \in Sessions :
             /\ PutStep(s)
             /\ BaseRevision(s) = store.sha
             /\ store'.doc = sess[s].data ]_vars

(* Session 1 was refused a save of data loaded before a lecture update of  *)
(* the other session was committed.                                        *)
C10_Witness ==
  /\ sess[1].outcome = "error"
  /\ sess[1].github_sha # store.sha
  /\ sess[1].data.lectures = 1
  /\ store.doc.lectures = 1
  /\ sess[2].outcome = "saved"

(***************************************************************************)
(* C13, as stated: for a chapter whose sheet_total is set (> 0), after any *)
(* sequence of logged sessions questions_completed_total never exceeds     *)
(* sheet_total.                                                            *)
(***************************************************************************)
C13_CompletedWithinSheet ==
  chapter.sheet_total > 0 =>
    chapter.questions_completed_total <= chapter.sheet_total

(***************************************************************************)
(* C14, as stated: while sheet_total = 0 the log-session action appends no *)
(* session and changes neither status, next_practice_date nor              *)
(* questions_completed_total.                                              *)
(***************************************************************************)
C14_NoLoggingWithoutSheet ==
  chapter.sheet_total = 0 =>
    /\ chapter.practice_sessions = << >>
    /\ chapter.status = "learning"
    /\ chapter.next_practice_date = None
    /\ chapter.questions_completed_total = 0

(* The chapter as "Log session" hands it to set_next_practice_date.        *)
AfterStatusUpdate ==
  update_status_after_session(
    [prev EXCEPT !.practice_sessions = chapter.practice_sessions,
                 !.questions_completed_total = chapter.questions_completed_total,
                 !.current_sheet_index = chapter.current_sheet_index],
    LastSession.accuracy)

(***************************************************************************)
(* C17: whenever a logged session leaves the chapter active (regression    *)
(* from maintenance and the first session of a learning chapter included), *)
(* next_practice_date is the session's day plus 9 (accuracy > 80), 4       *)
(* (60 <= accuracy <= 80) or 2 (accuracy < 60) days, never null, and       *)
(* maintenance_stage is as update_status_after_session left it.            *)
(***************************************************************************)
C17_ActiveSpacing ==
  (Logged /\ chapter.status = "active") =>
    /\ chapter.next_practice_date # None
    /\ chapter.next_practice_date =
         LastSession.date + (IF LastSession.accuracy > 8000 THEN 9
                             ELSE IF LastSession.accuracy >= 6000 THEN 4
                             ELSE 2)
    /\ chapter.maintenance_stage = AfterStatusUpdate.maintenance_stage

(* A maintenance chapter regressed by a session below 60 and is due in two *)
(* days.                                                                   *)
C17_Witness ==
  /\ Logged
  /\ prev.status = "maintenance"
  /\ chapter.status = "active"
  /\ LastSession.accuracy < 6000
  /\ chapter.next_practice_date = LastSession.date + 2

(***************************************************************************)
(* C16, as stated: ensure_chapter_fields reports 'changed' exactly when it *)
(* altered at least one field of the chapter; a chapter with every field   *)
(* present (next_practice_date and first_lecture_date may be null, their   *)
(* defaults) is reported unchanged, and so is the chapter an earlier call  *)
(* has normalized.                                                         *)
(***************************************************************************)
C16_ChangedIffAltered ==
  /\ norm.calls = 1 => (norm.changed <=> norm.chapter # norm.input)
  /\ norm.calls = 2 => (norm.changed <=> norm.chapter # norm.once)

(***************************************************************************)
(* C18: over any sequence of record_lecture calls on non-decreasing days,  *)
(* first_lecture_date is set by the first call with a count > 0 and never  *)
(* changed by a later call; it is the earliest date in lecture_dates;      *)
(* lecture_dates never holds the same date twice; and a call with a count  *)
(* <= 0 changes no field.                                                  *)
(***************************************************************************)
C18_FirstLectureDate ==
  /\ [] LET ch == unlock.chapter
            ld == ch.lecture_dates
        IN /\ (ch.first_lecture_date = None) <=> (ld = << >>)
           /\ ld # << >> =>
                /\ HasDate(ld, ch.first_lecture_date)
                /\ \A i \in 1..Len(ld) : ch.first_lecture_date <= ld[i]
           /\ \A i, j \in 1..Len(ld) : ld[i] = ld[j] => i = j
           /\ \A n \in {m \in RecordCounts : m <= 0} :
                record_lecture(ch, n, today) = ch
  /\ [][ LET ch == unlock.chapter
             after == unlock'.chapter
         IN /\ ch.first_lecture_date # None =>
                 after.first_lecture_date = ch.first_lecture_date
            /\ (after.total_lectures_watched > ch.total_lectures_watched
                  /\ ch.first_lecture_date = None) =>
                 after.first_lecture_date = today ]_vars

(* Lectures were recorded on day 0 and again, twice, on day 2.             *)
C18_Witness ==
  /\ today = 2
  /\ unlock.chapter.lecture_dates = <<0, 2>>
  /\ unlock.chapter.first_lecture_date = 0
  /\ unlock.chapter.total_lectures_watched = 4

(***************************************************************************)
(* C15: a handler changes the status only by logging a session, and only   *)
(* learning -> active, learning or active -> maintenance, or maintenance   *)
(* -> active, the last only when the session's accuracy is < 65; no        *)
(* session, lecture update or edit puts a chapter back into learning; and  *)
(* an active chapter that is not promoted stays active.                    *)
(***************************************************************************)
C15_StatusTransitions ==
  /\ chapter.status # prev.status =>
       /\ Logged
       /\ <<prev.status, chapter.status>> \in
            { <<"learning", "active">>, <<"learning", "maintenance">>,
              <<"active", "maintenance">>, <<"maintenance", "active">> }
  /\ (prev.status = "maintenance" /\ chapter.status = "active") =>
       LastSession.accuracy < 6500
  /\ prev.status # "learning" => chapter.status # "learning"
  /\ (prev.status = "active" /\ chapter.status # "maintenance") =>
       chapter.status = "active"

(* A chapter edited in the table was promoted and then regressed at a      *)
(* session of accuracy 64.                                                 *)
C15_Witness ==
  /\ Logged
  /\ prev.status = "maintenance"
  /\ chapter.status = "active"
  /\ LastSession.accuracy = 6400
  /\ chapter.total_lectures_watched = 3

C20_LearningIffNoSessions ==
  /\ (chapter.status = "learning") <=> (chapter.practice_sessions = << >>)
  /\ Logged => chapter.status \in {"active", "maintenance"}
  /\ chapter.status = "maintenance" => NumSessions(chapter) >= 3

(* A chapter created by "Update lectures" and given its sheet size in the  *)
(* table is promoted at its third session.                                 *)
C20_Witness ==
  /\ Promoted
  /\ NumSessions(chapter) = 3
  /\ chapter.lecture_dates # << >>
  /\ chapter.sheet_total = 64

(***************************************************************************)
(* C11, as stated: after any sequence of add-chapter, lecture-update,      *)
(* edit/rename and delete actions, no two chapters of the document have    *)
(* names that are equal case-insensitively.                                *)
(***************************************************************************)
C11_UniqueIgnoringCase ==
  \A i, j \in 1..Len(store.doc) :
    lower(store.doc[i].chapter_name) = lower(store.doc[j].chapter_name)
      => i = j

(* Non-decreasing in the lower-cased chapter_name.                         *)
SortedByName(chs) ==
  \A i \in 1..(Len(chs) - 1) :
    StrRank(lower(chs[i].chapter_name)) <= StrRank(lower(chs[i + 1].chapter_name))

(***************************************************************************)
(* C12, as stated: every document handed to save_data has its chapters     *)
(* sorted by lower-cased chapter_name, on every persist path: the save     *)
(* after normalization at load, lecture update (creation of a chapter      *)
(* included), session logging, add, edit and delete.                       *)
(***************************************************************************)
C12_SavedSorted ==
  \A k \in 1..Len(page.saved) : SortedByName(page.saved[k])

(***************************************************************************)
(* C21: in every state reachable from a newly created chapter by logged    *)
(* sessions, maintenance_stage is 0, 1 or 2, and it is 0 whenever status   *)
(* is not maintenance.                                                     *)
(***************************************************************************)
C21_StageRange ==
  /\ chapter.maintenance_stage \in {0, 1, 2}
  /\ chapter.status # "maintenance" => chapter.maintenance_stage = 0

(* A chapter that had reached stage 2 regressed and is at stage 0 again.   *)
C21_Witness ==
  /\ Logged
  /\ prev.status = "maintenance"
  /\ prev.maintenance_stage = 2
  /\ chapter.status = "active"
  /\ chapter.maintenance_stage = 0

====
